---- MODULE Spec2Model ----
(***************************************************************************)
(* Verification model of simnibs:                                          *)
(*   segmentation/brain_surface.py   expandCS, smooth_vertices,            *)
(*                                   verts2faces, list2numpy,              *)
(*                                   get_triangle_normals,                 *)
(*                                   _rasterize_surface, mask_from_surface,*)
(*                                   cat_vol_pbt_AT (mode selection)       *)
(*   simulation/tms_coil/tms_coil_deformation.py   TmsCoilDeformation      *)
(*                                                                         *)
(* Python arrays are functions over 0..n-1 (numpy's 0-based indices are    *)
(* kept); Python lists are TLA+ sequences.  Floating point numbers are     *)
(* fixed-point: the integer x stands for x / Unit.  The kernels of mesh_io *)
(* (node normals, Taubin smoothing, segment/triangle intersection) are     *)
(* outside the modelled files: their results are chosen from bounded sets. *)
(***************************************************************************)
EXTENDS Integers, Sequences, FiniteSets, TLC

VARIABLES
    \* ---- expandCS: arguments
    faces, mm2move_total, nsteps, nsteps_is_int, deform, opts,
    \* ---- expandCS: the mesh_io kernels the run talks to
    normals_kernel, taubin_kernel,
    \* ---- expandCS: locals
    pc, heap, vertices, move, v2f, i, node_normals, mm2move,
    facenormals_pre, n_intersections, n_intersections2, flipped_faces,
    returned,
    \* ---- expandCS: observation of the run
    vertices_in, move_backup, move_rayed, move_end, iter_log, iter_start,
    prev_end, flipfix_verts, smooth_log

expVars == <<faces, mm2move_total, nsteps, nsteps_is_int, deform, opts,
             normals_kernel, taubin_kernel,
             pc, heap, vertices, move, v2f, i, node_normals, mm2move,
             facenormals_pre, n_intersections, n_intersections2,
             flipped_faces, returned,
             vertices_in, move_backup, move_rayed, move_end, iter_log,
             iter_start, prev_end, flipfix_verts, smooth_log>>

VARIABLES
    \* ---- TmsCoilDeformation: the object and the last call made on it
    initial, range, _current, last_call

defVars == <<initial, range, _current, last_call>>

VARIABLES
    \* ---- mask_from_surface: arguments, locals, and the last call of
    \* _rasterize_surface
    shape, surface_empty, ras_pc, masks, ras_result, ras_warned,
    ras_pairs, ras_positions, ras_mask

rasVars == <<shape, surface_empty, ras_pc, masks, ras_result, ras_warned,
             ras_pairs, ras_positions, ras_mask>>

VARIABLES
    \* ---- cat_vol_pbt_AT: argument, mode, position and the passes run
    Ymf, binary, pbt_pc, passes

pbtVars == <<Ymf, binary, pbt_pc, passes>>

VARIABLES
    \* ---- verts2faces and smooth_vertices called on their own: arguments,
    \* position, results, and the subset after each dilation round
    sm_faces, sm_vertices, sm_verts2consider, sm_Niterations, sm_Ndilate,
    sm_mask_move, sm_pass_map, sm_pc, sm_v2f, sm_rounds, sm_out

smVars == <<sm_faces, sm_vertices, sm_verts2consider, sm_Niterations,
            sm_Ndilate, sm_mask_move, sm_pass_map, sm_pc, sm_v2f, sm_rounds,
            sm_out>>

VARIABLES
    \* ---- the mask move of expandCS on its own, on several meshes:
    \* arguments, locals, position, and the mask after the ray tests, at the
    \* end of the last iteration and at the end of the one before
    mk_faces, mk_nsteps, mk_despike_nonmove, mk_v2f, mk_move, mk_i, mk_pc,
    mk_rayed, mk_end, mk_prev

mkVars == <<mk_faces, mk_nsteps, mk_despike_nonmove, mk_v2f, mk_move, mk_i,
            mk_pc, mk_rayed, mk_end, mk_prev>>

VARIABLES
    \* ---- to_tcd and from_tcd: the deformation, the dictionary, the
    \* deformation read back, and the position
    td_obj, td_tcd, td_back, td_pc

tdVars == <<td_obj, td_tcd, td_back, td_pc>>

vars == <<expVars, defVars, rasVars, pbtVars, smVars, mkVars, tdVars>>

notExp == <<defVars, rasVars, pbtVars, smVars, mkVars, tdVars>>
notDef == <<expVars, rasVars, pbtVars, smVars, mkVars, tdVars>>
notRas == <<expVars, defVars, pbtVars, smVars, mkVars, tdVars>>
notPbt == <<expVars, defVars, rasVars, smVars, mkVars, tdVars>>
notSm == <<expVars, defVars, rasVars, pbtVars, mkVars, tdVars>>
notMk == <<expVars, defVars, rasVars, pbtVars, smVars, tdVars>>
notTd == <<expVars, defVars, rasVars, pbtVars, smVars, mkVars>>

(***************************************************************************)
(* Bounds                                                                  *)
(***************************************************************************)
MaxSteps == 2
\* the precision of the numbers: the smallest step is 1 / Unit
Unit == 60

(***************************************************************************)
(* Floating point numbers are fixed-point numbers: the integer x stands    *)
(* for x / Unit, and every multiplication and division rounds to the       *)
(* nearest representable number, as the floating point operations of the   *)
(* program do (at their own, finer, precision).                            *)
(***************************************************************************)
Abs(x) == IF x < 0 THEN -x ELSE x

\* a / b rounded to the nearest integer, b # 0
RoundDiv(a, b) ==
    IF b > 0 THEN (2 * a + b) \div (2 * b)
    ELSE (2 * (-a) + (-b)) \div (2 * (-b))

RInt(k) == k * Unit
RAdd(a, b) == a + b
RSub(a, b) == a - b
RMul(a, b) == RoundDiv(a * b, Unit)
RDiv(a, b) == RoundDiv(a * Unit, b)
RLt(a, b) == a < b
RZero == RInt(0)

\* not a number
NaN == -(1000 * Unit)

\* vectors are sequences of numbers
V3(x, y, z) == <<RInt(x), RInt(y), RInt(z)>>
VAdd(u, v) == [k \in DOMAIN u |-> RAdd(u[k], v[k])]
VSub(u, v) == [k \in DOMAIN u |-> RSub(u[k], v[k])]
VScale(u, r) == [k \in DOMAIN u |-> RMul(u[k], r)]
VNeg(u) == [k \in DOMAIN u |-> RSub(RZero, u[k])]
Dot(u, v) == RAdd(RAdd(RMul(u[1], v[1]), RMul(u[2], v[2])), RMul(u[3], v[3]))
Cross(u, v) ==
    << RSub(RMul(u[2], v[3]), RMul(u[3], v[2])),
       RSub(RMul(u[3], v[1]), RMul(u[1], v[3])),
       RSub(RMul(u[1], v[2]), RMul(u[2], v[1])) >>

RECURSIVE VSum(_)
VSum(vs) == IF Len(vs) = 1 THEN vs[1] ELSE VAdd(vs[1], VSum(Tail(vs)))

\* a mean that divides the sum of all entries by the number of faces
np_average_per_face(vs) ==
    LET total == VSum(vs)
    IN  [k \in DOMAIN total |-> RoundDiv(total[k], Len(vs) \div 3)]

\* np.average(values, axis=(0,1)): unweighted mean of all entries
np_average(vs) ==
    LET total == VSum(vs)
    IN  [k \in DOMAIN total |->
            IF \E j \in DOMAIN vs : vs[j][k] = NaN THEN NaN
            ELSE RoundDiv(total[k], Len(vs))]

\* len() of an array
ArrLen(a) == Cardinality(DOMAIN a)

\* np.unique: the sorted distinct values
RECURSIVE SortedSeq(_)
SortedSeq(S) ==
    IF S = {} THEN <<>>
    ELSE LET m == CHOOSE x \in S : \A y \in S : x <= y
         IN  <<m>> \o SortedSeq(S \ {m})

np_unique(s) == SortedSeq({s[k] : k \in DOMAIN s})

(***************************************************************************)
(* verts2faces: for each vertex the faces it is part of.                   *)
(***************************************************************************)
RECURSIVE verts2faces_loop(_, _, _)
verts2faces_loop(m, fcs, e) ==
    IF e >= 3 * ArrLen(fcs) THEN m
    ELSE LET t == e \div 3
             n == fcs[t][(e % 3) + 1]
         IN  verts2faces_loop([m EXCEPT ![n] = Append(@, t)], fcs, e + 1)

\* a map that lists a face under its first vertex only
verts2faces_first_vertex(verts, fcs) ==
    [n \in DOMAIN verts |-> SortedSeq({t \in DOMAIN fcs : fcs[t][1] = n})]

verts2faces(verts, fcs) ==
    verts2faces_loop([n \in DOMAIN verts |-> <<>>], fcs, 0)

\* faces[fl] flattened: the vertex entries of the faces listed in fl
RECURSIVE FaceVerts(_, _)
FaceVerts(fcs, fl) ==
    IF fl = <<>> THEN <<>> ELSE fcs[Head(fl)] \o FaceVerts(fcs, Tail(fl))

\* field[idx] for a list of vertex indices
Gather(field, idx) == [k \in DOMAIN idx |-> field[idx[k]]]

(***************************************************************************)
(* list2numpy: ragged list of lists -> padded rows and the ok mask.        *)
(***************************************************************************)
MaxLen(L) ==
    LET lens == {Len(L[k]) : k \in DOMAIN L}
    IN  CHOOSE x \in lens : \A y \in lens : y <= x

list2numpy(L, pad_val) ==
    LET max_neighbors == MaxLen(L)
    IN  [ narr |-> [r \in DOMAIN L |->
                      [c \in 1..max_neighbors |->
                          IF c <= Len(L[r]) THEN L[r][c] ELSE pad_val]],
          ok   |-> [r \in DOMAIN L |->
                      [c \in 1..max_neighbors |-> c <= Len(L[r])]] ]

\* narr[ok]: row-major selection of the entries whose mask is true
RECURSIVE RowSelect(_, _, _)
RowSelect(row, okrow, c) ==
    IF c > Len(row) THEN <<>>
    ELSE (IF okrow[c] THEN <<row[c]>> ELSE <<>>) \o RowSelect(row, okrow, c + 1)

RECURSIVE BoolIndex(_, _, _)
BoolIndex(narr, ok, r) ==
    IF r > Len(narr) THEN <<>>
    ELSE RowSelect(narr[r], ok[r], 1) \o BoolIndex(narr, ok, r + 1)

(***************************************************************************)
(* get_triangle_normals: the cross product of two edges, scaled to a unit  *)
(* vector.  The code divides by the Euclidean length, a square root; the   *)
(* model divides by the largest absolute component, another positive       *)
(* factor, which leaves the direction and the sign of every dot product.   *)
(* A zero cross product makes the code's normal NaN (0/0): it is the zero  *)
(* vector here, and every comparison with a NaN is False.                  *)
(***************************************************************************)
MaxAbs(u) ==
    LET S == {Abs(u[k]) : k \in DOMAIN u}
    IN  CHOOSE x \in S : \A y \in S : y <= x

get_triangle_normals(verts, fcs) ==
    [t \in DOMAIN fcs |->
        LET c == Cross(VSub(verts[fcs[t][2]], verts[fcs[t][1]]),
                       VSub(verts[fcs[t][3]], verts[fcs[t][1]]))
        IN  IF MaxAbs(c) = 0 THEN c
            ELSE [k \in DOMAIN c |-> RDiv(c[k], MaxAbs(c))]]

IsNaNNormal(nrm) == nrm = V3(0, 0, 0)

\* np.sum(facenormals_post*facenormals_pre, axis=1) < 0
FlippedFaces(post, pre) ==
    [t \in DOMAIN post |->
        /\ ~IsNaNNormal(post[t])
        /\ ~IsNaNNormal(pre[t])
        /\ RLt(Dot(post[t], pre[t]), RZero)]

(***************************************************************************)
(* mesh_io.Msh.smooth_surfaces (Taubin smoothing), outside the modelled    *)
(* files: it moves only the nodes of nodes_mask.  The kernel is one of a   *)
(* small family: "still" leaves the nodes where they are, "umbrella" moves *)
(* each masked node to the mean of the entries of its faces.               *)
(***************************************************************************)
TaubinKernels == {"still", "umbrella"}

smooth_surfaces(smoo, fcs, vert_mask, kernel) ==
    CHOOSE r \in
      { [n \in DOMAIN smoo |->
            IF vert_mask[n] /\ kernel = "umbrella" /\ m[n] # <<>>
            THEN np_average(Gather(smoo, FaceVerts(fcs, m[n])))
            ELSE smoo[n]] : m \in {verts2faces(smoo, fcs)} } : TRUE

(***************************************************************************)
(* smooth_vertices.  An optional argument is <<>> for None and <<x>> for a *)
(* given value x.                                                          *)
(***************************************************************************)
None == <<>>
Some(x) == <<x>>

\* np.arange(n) as a list of indices
RECURSIVE np_arange(_)
np_arange(n) == IF n = 0 THEN <<>> ELSE Append(np_arange(n - 1), n - 1)

\* a round that takes the padded rows whole, pad values included
dilate_once_with_padding(v2c, fcs, v2f_map) ==
    LET f2c0 == [k \in DOMAIN v2c |-> v2f_map[v2c[k]]]
        cv   == list2numpy(f2c0, 0)
        all  == [r \in DOMAIN cv.narr |-> [c \in DOMAIN cv.narr[r] |-> TRUE]]
        f2c  == BoolIndex(cv.narr, all, 1)
    IN  np_unique(FaceVerts(fcs, f2c))

\* one round of lines 280-283
dilate_once(v2c, fcs, v2f_map) ==
    LET f2c0 == [k \in DOMAIN v2c |-> v2f_map[v2c[k]]]
        cv   == list2numpy(f2c0, 0)
        f2c  == BoolIndex(cv.narr, cv.ok, 1)
    IN  np_unique(FaceVerts(fcs, f2c))

\* for i in range(Ndilate); each round's subset is evaluated once
RECURSIVE dilate_loop(_, _, _, _)
dilate_loop(v2c, fcs, v2f_map, k) ==
    IF k = 0 THEN v2c
    ELSE CHOOSE r \in { dilate_loop(d, fcs, v2f_map, k - 1) :
                           d \in {dilate_once(v2c, fcs, v2f_map)} } : TRUE

\* a pass that reads the array it is writing
pass_source_in_place(smoo, src) == smoo

\* the vertex a pass reads for vertex n: the previous pass's array
pass_source(smoo, src) == src

\* np.average(src[faces[v2f_map[n]]], axis=(0,1)): the mean of an empty
\* selection (a vertex in no face) is NaN
average_at(rd, fcs, fl, n) ==
    IF fl = <<>> THEN [k \in DOMAIN rd[n] |-> NaN]
    ELSE np_average(Gather(rd, FaceVerts(fcs, fl)))

\* for n in verts2consider: smoo[n] = np.average(src[faces[v2f_map[n]]])
RECURSIVE smooth_pass(_, _, _, _, _, _)
smooth_pass(smoo, src, fcs, v2f_map, v2c, k) ==
    IF k > Len(v2c) THEN smoo
    ELSE LET n == v2c[k]
             rd == pass_source(smoo, src)
         IN  smooth_pass(
                [smoo EXCEPT ![n] = average_at(rd, fcs, v2f_map[n], n)],
                src, fcs, v2f_map, v2c, k + 1)

\* for i in range(Niterations-1): smoo2 = smoo.copy(), then a pass that
\* reads smoo2; each pass's array is evaluated once
RECURSIVE smooth_more(_, _, _, _, _)
smooth_more(smoo, fcs, v2f_map, v2c, k) ==
    IF k <= 0 THEN smoo
    ELSE CHOOSE r \in { smooth_more(nxt, fcs, v2f_map, v2c, k - 1) :
                           nxt \in {smooth_pass(smoo, smoo, fcs, v2f_map,
                                                v2c, 1)} } : TRUE

\* the subset that is smoothed: lines 274-286
smooth_subset(verts, fcs, verts2consider, v2f_map, Ndilate, mask_move) ==
    LET v2c0 == IF verts2consider = None THEN np_arange(ArrLen(verts))
                ELSE verts2consider[1]
        m    == IF v2f_map = None THEN verts2faces(verts, fcs) ELSE v2f_map[1]
        v2c1 == dilate_loop(v2c0, fcs, m, Ndilate)
    IN  IF mask_move = None THEN v2c1
        ELSE SelectSeq(v2c1, LAMBDA n : mask_move[1][n])

smooth_vertices(verts, fcs, verts2consider, v2f_map, Niterations, Ndilate, mask_move, taubin, kernel) ==
    CHOOSE r \in
      { IF taubin
        THEN smooth_surfaces(verts, fcs,
                 [n \in DOMAIN verts |-> \E k \in DOMAIN v2c : v2c[k] = n],
                 kernel)
        ELSE CHOOSE q \in
               { smooth_more(first, fcs, m, v2c, Niterations - 1) :
                    first \in {smooth_pass(verts, verts, fcs, m, v2c, 1)} } :
               TRUE :
        m \in {IF v2f_map = None THEN verts2faces(verts, fcs)
               ELSE v2f_map[1]},
        v2c \in {smooth_subset(verts, fcs, verts2consider, v2f_map, Ndilate,
                               mask_move)} } : TRUE

(***************************************************************************)
(* expandCS                                                                *)
(***************************************************************************)
Bool == {TRUE, FALSE}

\* the meshes the runs are made on: two triangles sharing the edge 1-2
MeshFaces == (0 :> <<0, 1, 2>>) @@ (1 :> <<1, 3, 2>>)
MeshVertices ==
    (0 :> V3(0, 0, 0)) @@ (1 :> V3(1, 0, 0)) @@
    (2 :> V3(0, 1, 0)) @@ (3 :> V3(1, 1, 0))

\* mm2move_total: a uniform and a graded target, and one of the wrong length
Targets ==
    { [n \in 0..3 |-> RInt(4)],
      (0 :> RInt(4)) @@ (1 :> RInt(2)) @@ (2 :> RInt(2)) @@ (3 :> RInt(0)),
      [n \in 0..2 |-> RInt(4)] }

Deforms == {"expand", "shrink", "inflate"}

DefaultOpts ==
    [smooth_mesh |-> TRUE, skip_lastsmooth |-> TRUE, smooth_mm2move |-> TRUE,
     despike_nonmove |-> TRUE, fix_faceflips |-> TRUE]

NoOpts ==
    [smooth_mesh |-> FALSE, skip_lastsmooth |-> FALSE, smooth_mm2move |-> FALSE,
     despike_nonmove |-> FALSE, fix_faceflips |-> FALSE]

\* the defaults, each option switched off alone, and all switched off
OptionSets ==
    { DefaultOpts, NoOpts,
      [DefaultOpts EXCEPT !.smooth_mesh = FALSE],
      [DefaultOpts EXCEPT !.skip_lastsmooth = FALSE],
      [DefaultOpts EXCEPT !.smooth_mm2move = FALSE],
      [DefaultOpts EXCEPT !.despike_nonmove = FALSE],
      [DefaultOpts EXCEPT !.fix_faceflips = FALSE] }

(***************************************************************************)
(* mesh_io.Msh.nodes_normals, outside the modelled files: a unit vector    *)
(* per node.  The kernel is one of two fields: "up" (every normal +z) and  *)
(* "skew" (nodes 0 and 3 pushed towards each other in the plane).          *)
(***************************************************************************)
NormalKernels == {"up", "skew"}

nodes_normals(kernel) ==
    IF kernel = "up" THEN [n \in 0..3 |-> V3(0, 0, 1)]
    ELSE (0 :> V3(1, 0, 0)) @@ (1 :> V3(0, 0, 1)) @@
         (2 :> V3(0, 0, 1)) @@ (3 :> V3(-1, 0, 0))

(***************************************************************************)
(* mesh_io.Msh.intersect_segment through segment_triangle_intersect and    *)
(* np.bincount: the number of hits of each of the nseg segments.           *)
(***************************************************************************)
\* <<hits against the current mesh, hits against the shifted mesh>> of one
\* segment: no hit but the vertex's own shifted face, a hit in the current
\* mesh, a second hit in the shifted mesh
HitPairs == {<<0, 1>>, <<1, 1>>, <<0, 2>>}

\* checks that miss the mode
InputsOK_any_mode(dfm, is_int, total, verts_org) ==
    /\ is_int
    /\ ArrLen(total) = ArrLen(verts_org)

\* lines 85-87
InputsOK(dfm, is_int, total, verts_org) ==
    /\ dfm \in {"expand", "shrink"}
    /\ is_int
    /\ ArrLen(total) = ArrLen(verts_org)

\* no copy: the run works on the caller's array
copy_ref_alias(ref) == ref

\* vertices_org.copy(): the array the run works on
copy_ref(ref) == "work"

\* a range that steps by two
range_next_by_two(k) == k + 2

\* range(nsteps): the index after i
range_next(k) == k + 1

\* the field left as it is
zero_nonmove_skipped(field, mask) == field

\* mm2move[~move] = 0
zero_nonmove(field, mask) ==
    [n \in DOMAIN field |-> IF mask[n] THEN field[n] ELSE RZero]

\* the same share of the total in every step
step_mm2move_equal_shares(k, steps, total, verts, verts_org, normals) ==
    [n \in DOMAIN total |-> RDiv(total[n], RInt(steps))]

\* the remaining steps share the total, whatever has been moved
step_mm2move_no_dist(k, steps, total, verts, verts_org, normals) ==
    [n \in DOMAIN total |-> RDiv(total[n], RInt(steps - k))]

\* lines 111-117
step_mm2move(k, steps, total, verts, verts_org, normals) ==
    IF k = 0
    THEN [n \in DOMAIN total |-> RDiv(total[n], RInt(steps))]
    ELSE [n \in DOMAIN total |->
            RDiv(RSub(total[n], Dot(VSub(verts[n], verts_org[n]), normals[n])),
                 RInt(steps - k))]

\* position of vertex n among the entries of mask that are true
Rank(mask, n) == Cardinality({k \in DOMAIN mask : k < n /\ mask[k]})

\* an update that is content with one of the two tests
ray_update_either(mask, n1, n2) ==
    [n \in DOMAIN mask |->
        IF mask[n]
        THEN n1[Rank(mask, n)] = 0 \/ n2[Rank(mask, n)] < 2
        ELSE mask[n]]

\* move[move] = (n_intersections == 0) & (n_intersections2 < 2)
ray_update(mask, n1, n2) ==
    [n \in DOMAIN mask |->
        IF mask[n]
        THEN n1[Rank(mask, n)] = 0 /\ n2[Rank(mask, n)] < 2
        ELSE mask[n]]

\* np.sum(~move[faces[v2f[j]]])
Nnomove(mask, fcs, m, j) ==
    LET fv == FaceVerts(fcs, m[j])
    IN  Cardinality({k \in DOMAIN fv : ~mask[fv[k]]})

\* the largest number of faces of a vertex, for every vertex
Nfaces_of_busiest(m, j) ==
    LET S == {Len(m[k]) : k \in DOMAIN m}
    IN  CHOOSE x \in S : \A y \in S : y <= x

\* len(v2f[j])
Nfaces(m, j) == Len(m[j])

\* a rule that needs two fixed neighbours
nonmove_kept_two(nnomove, nfaces) == nnomove > nfaces + 1

\* a rule that keeps the flag at an equal count
nonmove_kept_equal(nnomove, nfaces) == nnomove >= nfaces

\* Nnomove > Nfaces
nonmove_kept(nnomove, nfaces) == nnomove > nfaces

\* move = ~(~move & (Nnomove > Nfaces))
despike(mask, fcs, m) ==
    [j \in DOMAIN mask |->
        ~(~mask[j] /\ nonmove_kept(Nnomove(mask, fcs, m, j), Nfaces(m, j)))]

\* a per-vertex scalar field as a field of 1-vectors, and back
Wrap(field) == [n \in DOMAIN field |-> <<field[n]>>]
Unwrap(field) == [n \in DOMAIN field |-> field[n][1]]

\* the displacement as the smoothing leaves it
final_mm2move_smoothed_last(field, mask, fcs, smooth) ==
    LET z == zero_nonmove(field, mask)
    IN  IF smooth
        THEN Unwrap(smooth_vertices(Wrap(z), fcs, None, None, 1, 0, None,
                                    FALSE, "still"))
        ELSE z

\* lines 182-185
final_mm2move(field, mask, fcs, smooth) ==
    LET z == zero_nonmove(field, mask)
    IN  IF smooth
        THEN zero_nonmove(
                Unwrap(smooth_vertices(Wrap(z), fcs, None, None, 1, 0, None,
                                       FALSE, "still")),
                mask)
        ELSE z

\* a test against an index the loop never reaches
skip_smooth_past_end(skip_last, k, steps) == skip_last /\ k = steps

\* skip_lastsmooth & (i == nsteps-1)
skip_smooth(skip_last, k, steps) == skip_last /\ k = steps - 1

ExpInit ==
    /\ faces = MeshFaces
    /\ mm2move_total \in Targets
    /\ nsteps \in 0..MaxSteps
    /\ nsteps_is_int \in Bool
    /\ deform \in Deforms
    /\ opts \in OptionSets
    /\ normals_kernel \in NormalKernels
    /\ taubin_kernel \in TaubinKernels
    /\ pc = "start"
    /\ heap = [org |-> MeshVertices, work |-> <<>>]
    /\ vertices = "unbound"
    /\ move = <<>>
    /\ v2f = <<>>
    /\ i = -1
    /\ node_normals = <<>>
    /\ mm2move = <<>>
    /\ facenormals_pre = <<>>
    /\ n_intersections = <<>>
    /\ n_intersections2 = <<>>
    /\ flipped_faces = <<>>
    /\ returned = <<>>
    /\ vertices_in = MeshVertices
    /\ move_backup = <<>>
    /\ move_rayed = <<>>
    /\ move_end = <<>>
    /\ iter_log = <<>>
    /\ iter_start = <<>>
    /\ prev_end = <<>>
    /\ flipfix_verts = {}
    /\ smooth_log = <<>>

expArgs == <<faces, mm2move_total, nsteps, nsteps_is_int, deform, opts,
             normals_kernel, taubin_kernel, vertices_in>>

\* lines 85-97: the checks, the copy, the mask and the vertex-to-face map
CheckInputs ==
    /\ UNCHANGED notExp
    /\ pc = "start"
    /\ IF InputsOK(deform, nsteps_is_int, mm2move_total, heap.org)
       THEN /\ vertices' = copy_ref("org")
            /\ heap' = [heap EXCEPT ![copy_ref("org")] = heap.org]
            /\ move' = [n \in DOMAIN heap.org |-> TRUE]
            /\ v2f' = verts2faces(heap.org, faces)
            /\ move_end' = [n \in DOMAIN heap.org |-> TRUE]
            /\ prev_end' = heap.org
            /\ pc' = "loop"
       ELSE /\ pc' = "failed"
            /\ UNCHANGED <<vertices, heap, move, v2f, move_end, prev_end>>
    /\ UNCHANGED <<expArgs, i, node_normals, mm2move, facenormals_pre,
                   n_intersections, n_intersections2, flipped_faces, returned,
                   move_backup, move_rayed, iter_log, iter_start,
                   flipfix_verts, smooth_log>>

\* lines 98-118: the next index, the node normals and the step's mm2move
IterBegin ==
    /\ UNCHANGED notExp
    /\ pc = "loop"
    /\ range_next(i) < nsteps
    /\ LET k  == range_next(i)
           nn == IF deform = "shrink"
                 THEN [n \in 0..3 |-> VNeg(nodes_normals(normals_kernel)[n])]
                 ELSE nodes_normals(normals_kernel)
       IN  /\ i' = k
           /\ node_normals' = nn
           /\ mm2move' = zero_nonmove(
                            step_mm2move(k, nsteps, mm2move_total,
                                         heap[vertices], heap.org, nn),
                            move)
           /\ iter_log' = Append(iter_log, k)
    /\ iter_start' = heap[vertices]
    /\ flipfix_verts' = {}
    /\ pc' = "raytest"
    /\ UNCHANGED <<expArgs, heap, vertices, move, v2f, facenormals_pre,
                   n_intersections, n_intersections2, flipped_faces, returned,
                   move_backup, move_rayed, move_end, prev_end, smooth_log>>

\* lines 138-163: the two intersection tests and the update of the mask.
\* The temporarily shifted mesh vc_tst is a copy that only the intersection
\* kernel reads.
RayTest ==
    /\ UNCHANGED notExp
    /\ pc = "raytest"
    /\ facenormals_pre' = get_triangle_normals(heap[vertices], faces)
    /\ LET nseg == Cardinality({n \in DOMAIN move : move[n]})
       IN  \E hits \in [0..(nseg - 1) -> HitPairs] :
           \E n1 \in {[k \in 0..(nseg - 1) |-> hits[k][1]]} :
           \E n2 \in {[k \in 0..(nseg - 1) |-> hits[k][2]]} :
              /\ n_intersections' = n1
              /\ n_intersections2' = n2
              /\ move' = ray_update(move, n1, n2)
              /\ move_rayed' = ray_update(move, n1, n2)
    /\ move_backup' = move
    /\ pc' = "despike"
    /\ UNCHANGED <<expArgs, heap, vertices, v2f, i, node_normals, mm2move,
                   flipped_faces, returned, move_end, iter_log, iter_start,
                   prev_end, flipfix_verts, smooth_log>>

\* lines 169-177
Despike ==
    /\ UNCHANGED notExp
    /\ pc = "despike"
    /\ move' = IF opts.despike_nonmove THEN despike(move, faces, v2f) ELSE move
    /\ pc' = "move"
    /\ UNCHANGED <<expArgs, heap, vertices, v2f, i, node_normals, mm2move,
                   facenormals_pre, n_intersections, n_intersections2,
                   flipped_faces, returned, move_backup, move_rayed, move_end,
                   iter_log, iter_start, prev_end, flipfix_verts, smooth_log>>

\* lines 182-191: the displacement and the in-place update of the vertices
Move ==
    /\ UNCHANGED notExp
    /\ pc = "move"
    /\ \E d \in {final_mm2move(mm2move, move, faces, opts.smooth_mm2move)} :
           /\ mm2move' = d
           /\ heap' = [heap EXCEPT ![vertices] =
                          [n \in DOMAIN @ |->
                              VAdd(@[n], VScale(node_normals[n], d[n]))]]
    /\ pc' = "flipfix"
    /\ UNCHANGED <<expArgs, vertices, move, v2f, i, node_normals,
                   facenormals_pre, n_intersections, n_intersections2,
                   flipped_faces, returned, move_backup, move_rayed, move_end,
                   iter_log, iter_start, prev_end, flipfix_verts, smooth_log>>

\* the vertices of the flipped faces: np.unique(faces[flipped_faces])
flipped_verts(fcs, flipped) ==
    SortedSeq({fcs[t][k] : t \in {u \in DOMAIN fcs : flipped[u]}, k \in 1..3})

\* lines 194-205: flipped faces are smoothed locally
FixFlips ==
    /\ UNCHANGED notExp
    /\ pc = "flipfix"
    /\ LET post    == get_triangle_normals(heap[vertices], faces)
           flipped == FlippedFaces(post, facenormals_pre)
       IN  IF opts.fix_faceflips /\ (\E t \in DOMAIN flipped : flipped[t])
           THEN \E v2c \in {flipped_verts(faces, flipped)} :
                \E sm \in {smooth_vertices(heap[vertices], faces, Some(v2c),
                                           Some(v2f), 5, 2, None, FALSE,
                                           "still")} :
                    /\ vertices' = "work"
                    /\ heap' = [heap EXCEPT !.work = sm]
                    /\ flipped_faces' =
                          FlippedFaces(get_triangle_normals(sm, faces),
                                       facenormals_pre)
                    /\ flipfix_verts' =
                          LET r == smooth_subset(heap[vertices], faces,
                                                 Some(v2c), Some(v2f), 2, None)
                          IN  {r[k] : k \in DOMAIN r}
           ELSE /\ flipped_faces' = flipped
                /\ UNCHANGED <<vertices, heap, flipfix_verts>>
    /\ pc' = "smooth"
    /\ UNCHANGED <<expArgs, move, v2f, i, node_normals, mm2move,
                   facenormals_pre, n_intersections, n_intersections2,
                   returned, move_backup, move_rayed, move_end, iter_log,
                   iter_start, prev_end, smooth_log>>

\* lines 208-215: the smoothing of the whole mesh, skipped in the last step
SmoothMesh ==
    /\ UNCHANGED notExp
    /\ pc = "smooth"
    /\ IF opts.smooth_mesh /\ ~skip_smooth(opts.skip_lastsmooth, i, nsteps)
       THEN \E sm \in {smooth_vertices(heap[vertices], faces, None,
                                        Some(v2f), 1, 0, Some(move), TRUE,
                                        taubin_kernel)} :
                /\ vertices' = "work"
                /\ heap' = [heap EXCEPT !.work = sm]
                /\ prev_end' = sm
                /\ smooth_log' = Append(smooth_log, i)
       ELSE /\ prev_end' = heap[vertices]
            /\ UNCHANGED <<vertices, heap, smooth_log>>
    /\ move_end' = move
    /\ pc' = "loop"
    /\ UNCHANGED <<expArgs, move, v2f, i, node_normals, mm2move,
                   facenormals_pre, n_intersections, n_intersections2,
                   flipped_faces, returned, move_backup, move_rayed, iter_log,
                   iter_start, flipfix_verts>>

\* line 240
Return ==
    /\ UNCHANGED notExp
    /\ pc = "loop"
    /\ ~(range_next(i) < nsteps)
    /\ returned' = heap[vertices]
    /\ pc' = "done"
    /\ UNCHANGED <<expArgs, heap, vertices, move, v2f, i, node_normals,
                   mm2move, facenormals_pre, n_intersections,
                   n_intersections2, flipped_faces, move_backup, move_rayed,
                   move_end, iter_log, iter_start, prev_end, flipfix_verts,
                   smooth_log>>

ExpNext ==
    \/ CheckInputs
    \/ IterBegin
    \/ RayTest
    \/ Despike
    \/ Move
    \/ FixFlips
    \/ SmoothMesh
    \/ Return

\* expandCS is not running
ExpIdle ==
    /\ faces = <<>> /\ mm2move_total = <<>> /\ nsteps = 0
    /\ nsteps_is_int = TRUE /\ deform = "expand" /\ opts = DefaultOpts
    /\ normals_kernel = "up" /\ taubin_kernel = "still"
    /\ pc = "idle" /\ heap = [org |-> <<>>, work |-> <<>>]
    /\ vertices = "unbound" /\ move = <<>> /\ v2f = <<>> /\ i = -1
    /\ node_normals = <<>> /\ mm2move = <<>> /\ facenormals_pre = <<>>
    /\ n_intersections = <<>> /\ n_intersections2 = <<>>
    /\ flipped_faces = <<>> /\ returned = <<>> /\ vertices_in = <<>>
    /\ move_backup = <<>> /\ move_rayed = <<>> /\ move_end = <<>>
    /\ iter_log = <<>> /\ iter_start = <<>> /\ prev_end = <<>>
    /\ flipfix_verts = {} /\ smooth_log = <<>>

(***************************************************************************)
(* TmsCoilDeformation: initial, range and the property current.            *)
(***************************************************************************)
MaxValue == 4
DefValues == 0..MaxValue

DefInit ==
    /\ initial \in DefValues
    /\ range \in {r \in DefValues \X DefValues : r[1] <= r[2]}
    /\ _current = initial
    /\ last_call = [op |-> "init", value |-> initial, before |-> initial,
                    raised |-> FALSE]

DefIdle ==
    /\ initial = 0 /\ range = <<0, 0>> /\ _current = 0
    /\ last_call = [op |-> "none", value |-> 0, before |-> 0,
                    raised |-> FALSE]

\* the condition of the setter under which it raises ValueError (line 43)
setter_rejects(cur, rng, value) == cur < rng[1] \/ cur > rng[2]

\* current.setter, lines 41-48: obj.current = value
SetCurrent ==
    /\ UNCHANGED notDef
    /\ \E value \in DefValues :
          /\ last_call' = [op |-> "set", value |-> value, before |-> _current,
                           raised |-> setter_rejects(_current, range, value)]
          /\ _current' = IF setter_rejects(_current, range, value)
                         THEN _current ELSE value
    /\ UNCHANGED <<initial, range>>

\* reset, lines 34-35: self.current = self.initial, through the setter
Reset ==
    /\ UNCHANGED notDef
    /\ last_call' = [op |-> "reset", value |-> initial, before |-> _current,
                     raised |-> setter_rejects(_current, range, initial)]
    /\ _current' = IF setter_rejects(_current, range, initial)
                   THEN _current ELSE initial
    /\ UNCHANGED <<initial, range>>

DefNext ==
    \/ SetCurrent
    \/ Reset

(***************************************************************************)
(* _rasterize_surface and mask_from_surface.                               *)
(* A volume is a function of the voxel <<x, y, z>> (0-based).  The         *)
(* intersection kernel returns, for the rays of the grid, the pairs        *)
(* (ray, face) ordered by ray and the positions of the crossings; the      *)
(* model keeps the ray of each pair and the depth of each position.        *)
(***************************************************************************)
MaxCross == 3

Shapes == {<<1, 1, 2>>, <<1, 2, 1>>}

\* depths of crossings: -1/2, 1/2 and 5/2
Depths == {-(Unit \div 2), Unit \div 2, (5 * Unit) \div 2}

Axes == <<"x", "y", "z">>

Voxels(shp) == (0..(shp[1] - 1)) \X (0..(shp[2] - 1)) \X (0..(shp[3] - 1))

\* lines 498-505
out_shape(shp, axis) ==
    IF axis = "z" THEN shp
    ELSE IF axis = "y" THEN <<shp[1], shp[3], shp[2]>>
    ELSE <<shp[3], shp[2], shp[1]>>

\* lines 509-513: the grid point of ray l
grid_point(os, l) == <<l \div os[2], l % os[2]>>

\* the results the kernel can give for nrays rays: at most MaxCross
\* crossings, ordered by ray
KernelResults(nrays) ==
    { r \in UNION { [1..n -> (0..(nrays - 1)) \X Depths] : n \in 0..MaxCross } :
        \A k \in 1..(Len(r) - 1) : r[k][1] <= r[k + 1][1] }

\* astype(int): truncation towards zero
astype_int(x) == IF x >= 0 THEN x \div Unit ELSE -((-x) \div Unit)

\* lines 543-545
inter_z_of(positions, depth) ==
    [k \in DOMAIN positions |->
        LET z == astype_int(positions[k] + RInt(1))
        IN  IF z < 0 THEN 0 ELSE IF z > depth THEN depth ELSE z]

\* np.unique(pairs[:, 0], return_index=True, return_counts=True)
unique_lines(pairs) == np_unique(pairs)
unique_index(pairs, l) ==
    (CHOOSE k \in DOMAIN pairs :
        pairs[k] = l /\ \A j \in DOMAIN pairs : pairs[j] = l => k <= j) - 1
unique_count(pairs, l) == Cardinality({k \in DOMAIN pairs : pairs[k] = l})

\* lines 530-532 and 548: the start of each line's crossings, and the end
uq_indices_of(pairs) ==
    LET lines == unique_lines(pairs)
    IN  [k \in 1..(Len(lines) + 1) |->
            IF k <= Len(lines) THEN unique_index(pairs, lines[k])
            ELSE Len(pairs)]

\* np.sort
RECURSIVE np_sort(_)
np_sort(q) ==
    IF q = <<>> THEN <<>>
    ELSE LET m == CHOOSE k \in DOMAIN q : \A j \in DOMAIN q : q[k] <= q[j]
         IN  <<q[m]>> \o np_sort([k \in 1..(Len(q) - 1) |->
                                     IF k < m THEN q[k] ELSE q[k + 1]])

\* pairing that gives up on a line with an odd count
num_pairs_even_only(count) == IF count % 2 = 0 THEN count \div 2 ELSE 0

\* range(0, len(crossings) // 2): the number of pairs of a line
num_pairs(count) == count \div 2

\* mask[gx, gy, enter:leave] = True
fill(mask, g, enter, leave) ==
    [v \in DOMAIN mask |->
        mask[v] \/ (v[1] = g[1] /\ v[2] = g[2] /\ enter <= v[3] /\ v[3] < leave)]

\* lines 557-559 for one line
RECURSIVE fill_line(_, _, _, _)
fill_line(mask, g, crossings, j) ==
    IF j >= num_pairs(Len(crossings)) THEN mask
    ELSE fill_line(fill(mask, g, crossings[2 * j + 1], crossings[2 * j + 2]),
                   g, crossings, j + 1)

\* lines 553-559
RECURSIVE fill_lines(_, _, _, _, _, _)
fill_lines(mask, lines, uq, inter_z, os, k) ==
    IF k > Len(lines) THEN mask
    ELSE LET crossings == np_sort(SubSeq(inter_z, uq[k] + 1, uq[k + 1]))
         IN  fill_lines(fill_line(mask, grid_point(os, lines[k]), crossings, 0),
                        lines, uq, inter_z, os, k + 1)

\* lines 529-559: the mask in the frame of the rasterization axis
raster_mask(pairs, positions, os) ==
    fill_lines([v \in Voxels(os) |-> FALSE], unique_lines(pairs),
               uq_indices_of(pairs), inter_z_of(positions, os[3]), os, 1)

\* line 535
odd_crossings(pairs) ==
    \E l \in {pairs[k] : k \in DOMAIN pairs} : unique_count(pairs, l) % 2 = 1

\* lines 562-567: np.swapaxes back to the original frame
to_original_frame(mask, shp, axis) ==
    [v \in Voxels(shp) |->
        IF axis = "z" THEN mask[v]
        ELSE IF axis = "y" THEN mask[<<v[1], v[3], v[2]>>]
        ELSE mask[<<v[3], v[2], v[1]>>]]

\* a vote that one mask wins
mask_vote_any(ms, shp) ==
    [v \in Voxels(shp) |-> Cardinality({k \in DOMAIN ms : ms[k][v]}) >= 1]

\* line 604: np.sum(masks, axis=0) >= 2
mask_vote(ms, shp) ==
    [v \in Voxels(shp) |-> Cardinality({k \in DOMAIN ms : ms[k][v]}) >= 2]

RasInit ==
    /\ shape \in Shapes
    /\ surface_empty \in Bool
    /\ ras_pc = "start"
    /\ masks = <<>>
    /\ ras_result = <<>>
    /\ ras_warned = FALSE
    /\ ras_pairs = <<>>
    /\ ras_positions = <<>>
    /\ ras_mask = <<>>

RasIdle ==
    /\ shape = <<0, 0, 0>> /\ surface_empty = TRUE /\ ras_pc = "idle"
    /\ masks = <<>> /\ ras_result = <<>> /\ ras_warned = FALSE
    /\ ras_pairs = <<>> /\ ras_positions = <<>> /\ ras_mask = <<>>

\* lines 592-596: an empty surface gives an empty volume
MaskBegin ==
    /\ UNCHANGED notRas
    /\ ras_pc = "start"
    /\ IF surface_empty
       THEN /\ ras_result' = [v \in Voxels(shape) |-> FALSE]
            /\ ras_pc' = "done"
       ELSE /\ ras_pc' = "x"
            /\ UNCHANGED ras_result
    /\ UNCHANGED <<shape, surface_empty, masks, ras_warned, ras_pairs,
                   ras_positions, ras_mask>>

NextAxis(axis) == IF axis = "x" THEN "y" ELSE IF axis = "y" THEN "z" ELSE "vote"

\* lines 599-600: one call of _rasterize_surface (lines 494-569)
Rasterize ==
    /\ UNCHANGED notRas
    /\ ras_pc \in {"x", "y", "z"}
    /\ \E os \in {out_shape(shape, ras_pc)} :
       \E r \in KernelResults(os[1] * os[2]) :
       \E pairs \in {[k \in DOMAIN r |-> r[k][1]]} :
       \E positions \in {[k \in DOMAIN r |-> r[k][2]]} :
       \E mask \in {raster_mask(pairs, positions, os)} :
          /\ ras_pairs' = pairs
          /\ ras_positions' = positions
          /\ ras_warned' = odd_crossings(pairs)
          /\ ras_mask' = mask
          /\ masks' = Append(masks, to_original_frame(mask, shape, ras_pc))
    /\ ras_pc' = NextAxis(ras_pc)
    /\ UNCHANGED <<shape, surface_empty, ras_result>>

\* line 604
Vote ==
    /\ UNCHANGED notRas
    /\ ras_pc = "vote"
    /\ ras_result' = mask_vote(masks, shape)
    /\ ras_pc' = "done"
    /\ UNCHANGED <<shape, surface_empty, masks, ras_warned, ras_pairs,
                   ras_positions, ras_mask>>

RasNext ==
    \/ MaskBegin
    \/ Rasterize
    \/ Vote

(***************************************************************************)
(* cat_vol_pbt_AT: the choice of the mode and the passes that depend on    *)
(* it.  The distance, local-statistics and median kernels (_cat_c_utils)   *)
(* are outside the modelled files; a pass is recorded by its name.         *)
(***************************************************************************)
YmfSize == 10

\* voxel values: 2, 1.5 and, in the first voxel, NaN
YmfInputs ==
    UNION { { f \in [0..(n - 1) -> {RInt(2), (3 * Unit) \div 2, NaN}] :
                \A k \in 1..(n - 1) : f[k] # NaN } :
            n \in {YmfSize, YmfSize + 1} }

\* np.round: to the nearest integer, halves to the even one
np_round(x) ==
    IF x = NaN THEN NaN
    ELSE LET q == x \div Unit
             r == x - q * Unit
         IN  IF 2 * r < Unit THEN q * Unit
             ELSE IF 2 * r > Unit THEN (q + 1) * Unit
             ELSE IF q % 2 = 0 THEN q * Unit ELSE (q + 1) * Unit

\* np.round(Ymf) == Ymf, elementwise; NaN equals nothing
is_integer_valued(x) == x # NaN /\ np_round(x) = x

\* np.sum(np.round(Ymf) == Ymf)
n_integer(Y) == Cardinality({k \in DOMAIN Y : is_integer_valued(Y[k])})

\* a threshold that takes in the fraction 0.9 itself
is_binary_from_090(count, size) == 10 * count >= 9 * size

\* line 692: count / size > 0.9
is_binary(count, size) == 10 * count > 9 * size

PbtInit ==
    /\ Ymf \in YmfInputs
    /\ binary = FALSE
    /\ pbt_pc = "start"
    /\ passes = <<>>

PbtIdle ==
    /\ Ymf = <<>> /\ binary = FALSE /\ pbt_pc = "idle" /\ passes = <<>>

\* lines 692-695
DetectMode ==
    /\ UNCHANGED notPbt
    /\ pbt_pc = "start"
    /\ binary' = is_binary(n_integer(Ymf), ArrLen(Ymf))
    /\ pbt_pc' = "wm_distance"
    /\ UNCHANGED <<Ymf, passes>>

\* lines 719-734
WMDistance ==
    /\ UNCHANGED notPbt
    /\ pbt_pc = "wm_distance"
    /\ passes' = Append(passes, "eidist_wm")
    /\ pbt_pc' = IF ~binary THEN "wm_correct" ELSE "csf_distance"
    /\ UNCHANGED <<Ymf, binary>>

\* lines 736-775
WMCorrect ==
    /\ UNCHANGED notPbt
    /\ pbt_pc = "wm_correct"
    /\ passes' = passes \o <<"wm_limit", "wm_localstat_gm",
                             "wm_localstat_csf", "wm_median3">>
    /\ pbt_pc' = "csf_distance"
    /\ UNCHANGED <<Ymf, binary>>

\* lines 785-807
CSFDistance ==
    /\ UNCHANGED notPbt
    /\ pbt_pc = "csf_distance"
    /\ passes' = Append(passes, "eidist_csf")
    /\ pbt_pc' = IF ~binary THEN "csf_correct" ELSE "thickness"
    /\ UNCHANGED <<Ymf, binary>>

\* lines 809-841
CSFCorrect ==
    /\ UNCHANGED notPbt
    /\ pbt_pc = "csf_correct"
    /\ passes' = passes \o <<"csf_limit", "csf_localstat_gm",
                             "csf_localstat_wm", "csf_median3">>
    /\ pbt_pc' = "thickness"
    /\ UNCHANGED <<Ymf, binary>>

\* lines 846-955
Thickness ==
    /\ UNCHANGED notPbt
    /\ pbt_pc = "thickness"
    /\ passes' = Append(passes, "pbtp")
    /\ pbt_pc' = "done"
    /\ UNCHANGED <<Ymf, binary>>

PbtNext ==
    \/ DetectMode
    \/ WMDistance
    \/ WMCorrect
    \/ CSFDistance
    \/ CSFCorrect
    \/ Thickness

(***************************************************************************)
(* verts2faces and smooth_vertices (plain mode) called on their own, on    *)
(* meshes of five vertices and per-vertex fields of 1-vectors.             *)
(***************************************************************************)
MaxIter == 3
MaxDilate == 2

\* a strip of three triangles; two triangles and the vertex 4 in no face;
\* a face that names the vertex 0 twice; no faces at all
StripFaces == (0 :> <<0, 1, 2>>) @@ (1 :> <<1, 3, 2>>) @@ (2 :> <<2, 3, 4>>)
TwiceFaces == (0 :> <<0, 0, 1>>)
NoFaces == <<>>
SmMeshes == {StripFaces, MeshFaces, TwiceFaces, NoFaces}

SmFields == [0..4 -> {<<RInt(0)>>, <<RInt(6)>>}]

SmSubsets ==
    {None} \cup {Some(q) : q \in {<<>>, <<0>>, <<4>>, <<0, 4>>, <<4, 0>>,
                                  <<1, 2>>, <<2, 1>>, <<3, 4>>}}

SmMasks == {None, Some([n \in 0..4 |-> n # 1])}

\* no copy: smoo is the caller's array
smoo_ref_alias(ref) == ref

\* line 288, smoo = vertices.copy(): smoo refers to an array of its own
smoo_ref(ref) == "smoo"

\* line 431: sorted(L, key=len, reverse=True)[0] raises IndexError on an
\* empty list
list2numpy_raises(L) == L = <<>>

\* lines 279-283: a round raises if its subset is empty
RECURSIVE dilate_raises(_, _, _, _)
dilate_raises(v2c, fcs, v2f_map, k) ==
    /\ k > 0
    /\ \/ list2numpy_raises(v2c)
       \/ dilate_raises(dilate_once(v2c, fcs, v2f_map), fcs, v2f_map, k - 1)

\* lines 279-283: verts2consider before the first round and after each
\* round that ran
RECURSIVE dilate_trace(_, _, _, _)
dilate_trace(v2c, fcs, v2f_map, k) ==
    IF k = 0 \/ list2numpy_raises(v2c) THEN <<v2c>>
    ELSE <<v2c>> \o dilate_trace(dilate_once(v2c, fcs, v2f_map), fcs,
                                 v2f_map, k - 1)

SmInit ==
    /\ sm_faces \in SmMeshes
    /\ sm_vertices \in SmFields
    /\ sm_verts2consider \in SmSubsets
    /\ sm_Niterations \in 0..MaxIter
    /\ sm_Ndilate \in 0..MaxDilate
    /\ sm_mask_move \in SmMasks
    /\ sm_pass_map \in Bool
    /\ sm_pc = "start"
    /\ sm_v2f = <<>>
    /\ sm_rounds = <<>>
    /\ sm_out = [raised |-> FALSE, value |-> <<>>]

SmIdle ==
    /\ sm_faces = <<>> /\ sm_vertices = <<>> /\ sm_verts2consider = None
    /\ sm_Niterations = 1 /\ sm_Ndilate = 0 /\ sm_mask_move = None
    /\ sm_pass_map = FALSE /\ sm_pc = "idle" /\ sm_v2f = <<>>
    /\ sm_rounds = <<>> /\ sm_out = [raised |-> FALSE, value |-> <<>>]

smArgs == <<sm_faces, sm_vertices, sm_verts2consider, sm_Niterations,
            sm_Ndilate, sm_mask_move, sm_pass_map>>

\* v2f = verts2faces(vertices, faces)
Verts2facesCall ==
    /\ UNCHANGED notSm
    /\ sm_pc = "start"
    /\ sm_v2f' = verts2faces(sm_vertices, sm_faces)
    /\ sm_pc' = "mapped"
    /\ UNCHANGED <<smArgs, sm_rounds, sm_out>>

\* smooth_vertices(vertices, faces, verts2consider, v2f_map, Niterations,
\* Ndilate, mask_move), with v2f_map given or left to the callee
SmoothCall ==
    /\ UNCHANGED notSm
    /\ sm_pc = "mapped"
    /\ \E v2c0 \in {IF sm_verts2consider = None
                    THEN np_arange(ArrLen(sm_vertices))
                    ELSE sm_verts2consider[1]} :
       \E m \in {IF sm_pass_map THEN sm_v2f
                 ELSE verts2faces(sm_vertices, sm_faces)} :
          /\ sm_rounds' = dilate_trace(v2c0, sm_faces, m, sm_Ndilate)
          /\ IF dilate_raises(v2c0, sm_faces, m, sm_Ndilate)
             THEN /\ sm_out' = [raised |-> TRUE, value |-> <<>>]
                  /\ sm_vertices' = sm_vertices
             ELSE \E smoo \in {smooth_vertices(
                                   sm_vertices, sm_faces, sm_verts2consider,
                                   IF sm_pass_map THEN Some(sm_v2f) ELSE None,
                                   sm_Niterations, sm_Ndilate, sm_mask_move,
                                   FALSE, "still")} :
                  /\ sm_out' = [raised |-> FALSE, value |-> smoo]
                  \* the caller's array after the call: the passes write
                  \* the array that smoo refers to
                  /\ sm_vertices' = IF smoo_ref("vertices") = "vertices"
                                    THEN smoo ELSE sm_vertices
    /\ sm_pc' = "done"
    /\ UNCHANGED <<sm_faces, sm_verts2consider, sm_Niterations, sm_Ndilate,
                   sm_mask_move, sm_pass_map, sm_v2f>>

SmNext ==
    \/ Verts2facesCall
    \/ SmoothCall

(***************************************************************************)
(* The mask move of expandCS on its own.  Only lines 90, 163 and 177 write *)
(* move, and they read nothing but move, faces, v2f and the counts of the  *)
(* two intersection tests, which are inputs here as in the full run: the   *)
(* mask can be followed on several meshes of five vertices without the     *)
(* positions.                                                              *)
(***************************************************************************)
MkInit ==
    /\ mk_faces \in SmMeshes
    /\ mk_nsteps \in 1..(MaxSteps + 1)
    /\ mk_despike_nonmove \in BOOLEAN
    /\ mk_v2f = <<>>
    /\ mk_move = <<>>
    /\ mk_i = -1
    /\ mk_pc = "start"
    /\ mk_rayed = <<>> /\ mk_end = <<>> /\ mk_prev = <<>>

MkIdle ==
    /\ mk_faces = <<>> /\ mk_nsteps = 1 /\ mk_despike_nonmove = FALSE
    /\ mk_v2f = <<>> /\ mk_move = <<>> /\ mk_i = -1 /\ mk_pc = "idle"
    /\ mk_rayed = <<>> /\ mk_end = <<>> /\ mk_prev = <<>>

mkArgs == <<mk_faces, mk_nsteps, mk_despike_nonmove>>

\* lines 90-91: move = np.ones(len(vertices)), v2f = verts2faces(...)
MkBegin ==
    /\ UNCHANGED notMk
    /\ mk_pc = "start"
    /\ mk_move' = [n \in 0..4 |-> TRUE]
    /\ mk_v2f' = verts2faces([n \in 0..4 |-> <<>>], mk_faces)
    /\ mk_end' = [n \in 0..4 |-> TRUE]
    /\ mk_prev' = [n \in 0..4 |-> TRUE]
    /\ mk_pc' = "loop"
    /\ UNCHANGED <<mkArgs, mk_i, mk_rayed>>

\* line 98 and line 163: the next iteration and its update of the mask from
\* the counts of the two tests
MkRayTest ==
    /\ UNCHANGED notMk
    /\ mk_pc = "loop"
    /\ range_next(mk_i) < mk_nsteps
    /\ mk_i' = range_next(mk_i)
    /\ LET nseg == Cardinality({n \in DOMAIN mk_move : mk_move[n]})
       IN  \E hits \in [0..(nseg - 1) -> HitPairs] :
           \E r \in {ray_update(mk_move,
                                [k \in 0..(nseg - 1) |-> hits[k][1]],
                                [k \in 0..(nseg - 1) |-> hits[k][2]])} :
              /\ mk_move' = r
              /\ mk_rayed' = r
    /\ mk_pc' = "despike"
    /\ UNCHANGED <<mkArgs, mk_v2f, mk_end, mk_prev>>

\* lines 169-177, and the end of the iteration
MkDespike ==
    /\ UNCHANGED notMk
    /\ mk_pc = "despike"
    /\ \E r \in {IF mk_despike_nonmove THEN despike(mk_move, mk_faces, mk_v2f)
                  ELSE mk_move} :
          /\ mk_move' = r
          /\ mk_end' = r
    /\ mk_prev' = mk_end
    /\ mk_pc' = "loop"
    /\ UNCHANGED <<mkArgs, mk_v2f, mk_i, mk_rayed>>

\* line 240
MkReturn ==
    /\ UNCHANGED notMk
    /\ mk_pc = "loop"
    /\ ~(range_next(mk_i) < mk_nsteps)
    /\ mk_pc' = "done"
    /\ UNCHANGED <<mkArgs, mk_v2f, mk_move, mk_i, mk_rayed, mk_end, mk_prev>>

MkNext ==
    \/ MkBegin
    \/ MkRayTest
    \/ MkDespike
    \/ MkReturn

(***************************************************************************)
(* to_tcd and from_tcd of TmsCoilTranslation and TmsCoilRotation.  A Python*)
(* value that changes its type on the way keeps the type with its items:   *)
(* a tuple, a list or an ndarray of numbers is a record of py and items.   *)
(* A dictionary is a record; a call gives its value or the exception.      *)
(***************************************************************************)
PyTuple(items) == [py |-> "tuple", items |-> items]
PyList(items) == [py |-> "list", items |-> items]
PyArray(items) == [py |-> "ndarray", items |-> items]

Value(v) == [raised |-> "none", value |-> v]
Raise(e) == [raised |-> e, value |-> <<>>]

\* TmsCoilDeformation.__init__, lines 29-32
Deformation_init(initial_, range_) ==
    [initial |-> initial_, current |-> initial_, range |-> range_]

\* TmsCoilTranslation.__init__, lines 126-133
TmsCoilTranslation(initial_, range_, axis) ==
    [cls |-> "TmsCoilTranslation", axis |-> axis]
        @@ Deformation_init(initial_, range_)

\* TmsCoilRotation.__init__, lines 196-205
TmsCoilRotation(initial_, range_, point_1, point_2) ==
    [cls |-> "TmsCoilRotation", point_1 |-> point_1, point_2 |-> point_2]
        @@ Deformation_init(initial_, range_)

\* TmsCoilDeformation.to_tcd, lines 78-82: list(self.range)
base_to_tcd(d) == [initial |-> d.initial, range |-> PyList(d.range.items)]

\* a translation written with the letters of the axes in another order
translation_type_shifted(axis) ==
    IF axis = 0 THEN Value("y")
    ELSE IF axis = 1 THEN Value("z")
    ELSE IF axis = 2 THEN Value("x")
    ELSE Raise("ValueError")

\* TmsCoilTranslation.to_tcd, lines 157-164: the type of the axis
translation_type(axis) ==
    IF axis = 0 THEN Value("x")
    ELSE IF axis = 1 THEN Value("y")
    ELSE IF axis = 2 THEN Value("z")
    ELSE Raise("ValueError")

\* TmsCoilTranslation.to_tcd, lines 155-165
translation_to_tcd(d) ==
    IF translation_type(d.axis).raised # "none"
    THEN Raise(translation_type(d.axis).raised)
    ELSE Value(base_to_tcd(d) @@ [type |-> translation_type(d.axis).value])

\* TmsCoilRotation.to_tcd, lines 233-238: point_1.tolist()
rotation_to_tcd(d) ==
    Value(base_to_tcd(d) @@ [type |-> "rot2p",
                             point1 |-> PyList(d.point_1.items),
                             point2 |-> PyList(d.point_2.items)])

\* d.to_tcd(), by the class of d
to_tcd(d) ==
    IF d.cls = "TmsCoilTranslation" THEN translation_to_tcd(d)
    ELSE rotation_to_tcd(d)

\* TmsCoilDeformation.from_tcd, lines 84-99
from_tcd(tcd) ==
    LET initial_ == tcd.initial
        deform_range == tcd.range
    IN  IF tcd.type = "x"
        THEN Value(TmsCoilTranslation(initial_, deform_range, 0))
        ELSE IF tcd.type = "y"
        THEN Value(TmsCoilTranslation(initial_, deform_range, 1))
        ELSE IF tcd.type = "z"
        THEN Value(TmsCoilTranslation(initial_, deform_range, 2))
        ELSE IF tcd.type = "rot2p"
        THEN Value(TmsCoilRotation(initial_, deform_range,
                                   PyArray(tcd.point1.items),
                                   PyArray(tcd.point2.items)))
        ELSE Raise("ValueError")

\* the deformations: any axis from -1 to 3, two end points; the current
\* value is the initial one or, if that is in the range, any value that an
\* assignment has left
TdRanges == {r \in DefValues \X DefValues : r[1] <= r[2]}
TdPoints == {PyArray(<<0, 0, 0>>), PyArray(<<0, 0, Unit>>)}

TdObjects ==
    { [d EXCEPT !.current = c] :
        d \in { TmsCoilTranslation(v, PyTuple(r), a) :
                    v \in DefValues, r \in TdRanges, a \in -1..3 }
              \cup { TmsCoilRotation(v, PyTuple(r), p, q) :
                    v \in DefValues, r \in TdRanges,
                    p \in TdPoints, q \in TdPoints },
        c \in DefValues }

TdReachable(d) ==
    \/ d.current = d.initial
    \/ d.range.items[1] <= d.initial /\ d.initial <= d.range.items[2]

\* dictionaries of a type that no deformation writes
TdForeign ==
    { [initial |-> v, range |-> PyList(r), type |-> t] :
        v \in DefValues, r \in {<<0, MaxValue>>}, t \in {"w", "X", ""} }

TdInit ==
    /\ td_obj \in {d \in TdObjects : TdReachable(d)}
    /\ td_tcd = Value(<<>>)
    /\ td_back = Value(<<>>)
    /\ td_pc = "object"

TdIdle ==
    /\ td_obj = <<>> /\ td_tcd = Value(<<>>) /\ td_back = Value(<<>>)
    /\ td_pc = "idle"

\* tcd = d.to_tcd()
ToTcd ==
    /\ UNCHANGED notTd
    /\ td_pc = "object"
    /\ td_tcd' = to_tcd(td_obj)
    /\ td_pc' = IF to_tcd(td_obj).raised = "none" THEN "written" ELSE "done"
    /\ UNCHANGED <<td_obj, td_back>>

\* a dictionary that comes from elsewhere, with a type of its own
ForeignTcd ==
    /\ UNCHANGED notTd
    /\ td_pc = "object"
    /\ \E tcd \in TdForeign : td_tcd' = Value(tcd)
    /\ td_pc' = "foreign"
    /\ UNCHANGED <<td_obj, td_back>>

\* TmsCoilDeformation.from_tcd(tcd)
FromTcd ==
    /\ UNCHANGED notTd
    /\ td_pc \in {"written", "foreign"}
    /\ td_back' = from_tcd(td_tcd.value)
    /\ td_pc' = IF td_pc = "written" THEN "done" ELSE "done_foreign"
    /\ UNCHANGED <<td_obj, td_tcd>>

TdNext ==
    \/ ToTcd
    \/ ForeignTcd
    \/ FromTcd

(***************************************************************************)
(* Specifications: one per program part; the other parts stay idle.        *)
(***************************************************************************)
Init == ExpInit /\ DefIdle /\ RasIdle /\ PbtIdle /\ SmIdle /\ MkIdle /\ TdIdle
Next == ExpNext
Spec == Init /\ [][Next]_vars

DeformInit == ExpIdle /\ DefInit /\ RasIdle /\ PbtIdle /\ SmIdle /\ MkIdle /\ TdIdle
SpecDeform == DeformInit /\ [][DefNext]_vars

RasterInit == ExpIdle /\ DefIdle /\ RasInit /\ PbtIdle /\ SmIdle /\ MkIdle /\ TdIdle
SpecRaster == RasterInit /\ [][RasNext]_vars

PbtModeInit == ExpIdle /\ DefIdle /\ RasIdle /\ PbtInit /\ SmIdle /\ MkIdle /\ TdIdle
SpecPbt == PbtModeInit /\ [][PbtNext]_vars

SmoothInit == ExpIdle /\ DefIdle /\ RasIdle /\ PbtIdle /\ SmInit /\ MkIdle /\ TdIdle
SpecSmooth == SmoothInit /\ [][SmNext]_vars

MaskInit ==
    ExpIdle /\ DefIdle /\ RasIdle /\ PbtIdle /\ SmIdle /\ MkInit /\ TdIdle
SpecMask == MaskInit /\ [][MkNext]_vars

TcdInit ==
    ExpIdle /\ DefIdle /\ RasIdle /\ PbtIdle /\ SmIdle /\ MkIdle /\ TdInit
SpecTcd == TcdInit /\ [][TdNext]_vars

(***************************************************************************)
(* Properties of expandCS (specification Spec).                            *)
(***************************************************************************)
Running == pc \notin {"idle", "start", "failed"}

Verts == DOMAIN vertices_in

\* C1, as amended: the movable flags start all true; the ray-test update
\* never sets a flag; a flag that is false at the end of an iteration is
\* false in every later step of the run.  (Despiking may set back a flag
\* that the ray test of the same iteration has cleared.)
C1_FlagsClearedForGood ==
    [][ /\ (pc = "start" /\ pc' = "loop") => \A n \in Verts : move'[n]
        /\ pc = "raytest" => \A n \in Verts : ~move[n] => ~move'[n]
        /\ Running => \A n \in Verts : ~move_end[n] => ~move'[n] ]_vars

\* C1, as stated: once a flag has been cleared no later step sets it back.
C1_NeverSetBack ==
    [][Running => \A n \in Verts : ~move[n] => ~move'[n]]_vars

\* a second iteration has updated the flags: one flag was cleared in the
\* first iteration and is still cleared, another one is newly cleared
C1_Witness ==
    /\ pc = "move" /\ i = 1 /\ opts.despike_nonmove
    /\ \E n \in Verts : ~move_end[n] /\ ~move[n]
    /\ \E m \in Verts : move_end[m] /\ ~move[m]

\* C2, as amended: a vertex that is non-movable after the mask update is not
\* displaced by the move along the normals, and is at the end of the
\* iteration where it was at its start unless the smoothing of flipped
\* faces has covered it.
C2_NonMovableStays ==
    /\ pc \in {"flipfix"} =>
          \A n \in Verts : ~move[n] => heap[vertices][n] = iter_start[n]
    /\ (pc \in {"smooth", "loop"} /\ i >= 0) =>
          \A n \in Verts :
              (~move[n] /\ n \notin flipfix_verts)
                  => heap[vertices][n] = iter_start[n]

\* C2, as stated: non-movable vertices end the iteration where they began
\* it, flipped faces or not.
C2_NonMovableNeverMoves ==
    (pc = "loop" /\ i >= 0) =>
        \A n \in Verts : ~move[n] => heap[vertices][n] = iter_start[n]

\* an iteration with the mesh smoothing has ended: a non-movable vertex has
\* stayed while a movable one has moved
C2_Witness ==
    /\ pc = "loop" /\ i >= 0 /\ opts.fix_faceflips
    /\ Len(smooth_log) > 0 /\ smooth_log[Len(smooth_log)] = i
    /\ \E n \in Verts : ~move[n] /\ n \notin flipfix_verts
                        /\ heap[vertices][n] = iter_start[n]
    /\ \E m \in Verts : move[m] /\ heap[vertices][m] # iter_start[m]

\* C3: no step of expandCS changes the arrays vertices_org, faces and
\* mm2move_total of the caller; the faces of every iteration are the ones
\* passed in.
C3_InputsUntouched ==
    [][ /\ heap'.org = heap.org
        /\ heap'.org = vertices_in
        /\ faces' = faces
        /\ mm2move_total' = mm2move_total ]_vars

\* the run has returned positions that differ from the input, which is intact
C3_Witness ==
    /\ pc = "done" /\ nsteps >= 1
    /\ returned # vertices_in
    /\ heap.org = vertices_in

\* C4: with a mode other than expand/shrink, a non-integer nsteps or a
\* length mismatch the run fails before the copy, the mask, the
\* vertex-to-face map or any iteration, and returns nothing.
C4_FailsFast ==
    (pc # "idle" /\ (\/ deform \notin {"expand", "shrink"}
                     \/ ~nsteps_is_int
                     \/ ArrLen(mm2move_total) # ArrLen(vertices_in))) =>
        /\ pc \in {"start", "failed"}
        /\ vertices = "unbound" /\ heap.work = <<>>
        /\ move = <<>> /\ v2f = <<>> /\ mm2move = <<>>
        /\ iter_log = <<>> /\ returned = <<>>

\* the run has failed on the mode alone
C4_Witness ==
    /\ pc = "failed" /\ deform = "inflate" /\ nsteps_is_int
    /\ ArrLen(mm2move_total) = ArrLen(vertices_in)

\* the place of a state in a run of expandCS: six steps to an iteration
Position ==
    IF pc = "start" THEN -1
    ELSE IF pc = "loop" THEN 6 * (i + 1)
    ELSE IF pc = "raytest" THEN 6 * i + 1
    ELSE IF pc = "despike" THEN 6 * i + 2
    ELSE IF pc = "move" THEN 6 * i + 3
    ELSE IF pc = "flipfix" THEN 6 * i + 4
    ELSE IF pc = "smooth" THEN 6 * i + 5
    ELSE 6 * (i + 1) + 1

C5_Iterations ==
    /\ Running =>
          /\ Len(iter_log) <= nsteps
          /\ Len(iter_log) = i + 1
          /\ \A k \in DOMAIN iter_log : iter_log[k] = k - 1
    /\ pc \in {"raytest", "despike", "move"} =>
          /\ iter_start = prev_end
          /\ heap[vertices] = prev_end
    /\ pc = "done" =>
          /\ Len(iter_log) = nsteps
          /\ returned = prev_end
          /\ returned = heap[vertices]

\* C5: a run on valid inputs makes the iterations 0, 1, ..., nsteps-1 in
\* this order, each from the positions the previous one left, and returns
\* the positions the last one left; every step advances the run, which
\* returns at step 6 * nsteps + 1 at the latest.
C5_ExactlyNsteps ==
    [][ /\ C5_Iterations'
        /\ Running' => /\ Position < Position'
                       /\ Position' <= 6 * nsteps + 1
                       /\ (Position' = 6 * nsteps + 1) <=> (pc' = "done") ]_vars

\* a run of two iterations has returned, and its second iteration began
\* from positions that differ from the input
C5_Witness ==
    /\ pc = "done" /\ nsteps = 2 /\ iter_log = <<0, 1>>
    /\ iter_start # vertices_in
    /\ returned # iter_start

(***************************************************************************)
(* Properties of TmsCoilDeformation.current (specification SpecDeform).    *)
(***************************************************************************)
InRange(x) == range[1] <= x /\ x <= range[2]

\* C7, as stated: from an in-range state, the assignment of a value outside
\* the range raises and leaves current as it was, and the assignment of a
\* value inside the range makes it the current value.
C7_SetterValidatesValue ==
    (last_call.op = "set" /\ InRange(last_call.before)) =>
        IF InRange(last_call.value)
        THEN ~last_call.raised /\ _current = last_call.value
        ELSE last_call.raised /\ _current = last_call.before

(***************************************************************************)
(* Properties of mask_from_surface and _rasterize_surface (specification   *)
(* SpecRaster).                                                            *)
(***************************************************************************)
\* the axis of the last call of _rasterize_surface, and its frame
LastAxis == Axes[Len(masks)]
LastFrame == out_shape(shape, LastAxis)

\* the voxel of the frame of an axis that holds the voxel v of the volume
InFrame(v, axis) ==
    IF axis = "z" THEN v
    ELSE IF axis = "y" THEN <<v[1], v[3], v[2]>>
    ELSE <<v[3], v[2], v[1]>>

\* C8: for a non-empty surface a voxel of the result is true exactly if at
\* least 2 of the 3 rasterizations hold it, each rasterization being the
\* mask of its axis read in the axis order of the volume.
C8_MajorityVote ==
    /\ (ras_pc \in {"y", "z", "vote"}) =>
          \A v \in Voxels(shape) :
              masks[Len(masks)][v] = ras_mask[InFrame(v, LastAxis)]
    /\ (ras_pc = "done" /\ ~surface_empty) =>
          /\ Len(masks) = 3
          /\ \A v \in Voxels(shape) :
                ras_result[v] <=>
                   \E k1, k2 \in 1..3 : k1 # k2 /\ masks[k1][v] /\ masks[k2][v]

\* the vote has kept a voxel two masks hold and dropped one a single mask holds
C8_Witness ==
    /\ ras_pc = "done" /\ ~surface_empty
    /\ \E v \in Voxels(shape) :
          ras_result[v] /\ \E k \in 1..3 : ~masks[k][v]
    /\ \E v \in Voxels(shape) :
          ~ras_result[v] /\ \E k \in 1..3 : masks[k][v]

\* the depths in voxels of the crossings of the ray l, in the order the
\* kernel gave them
RECURSIVE CrossingsFrom(_, _)
CrossingsFrom(l, k) ==
    IF k > Len(ras_pairs) THEN <<>>
    ELSE IF ras_pairs[k] = l
         THEN <<inter_z_of(ras_positions, LastFrame[3])[k]>>
                  \o CrossingsFrom(l, k + 1)
         ELSE CrossingsFrom(l, k + 1)

\* z is inside one of the floor(count/2) pairs of the sorted crossings c
InsidePair(c, z) ==
    \E j \in 0..((Len(c) \div 2) - 1) : c[2 * j + 1] <= z /\ z < c[2 * j + 2]

\* C9: the mask of one call holds the voxel z of the ray l exactly if z is
\* in enter..leave-1 of one of the pairs (0,1), (2,3), ... of the sorted
\* crossings of l alone, floor(count/2) pairs whether the count is odd or
\* even; an odd count only sets the warning.
C9_OddCrossings ==
    (ras_pc \in {"y", "z", "vote"}) =>
        /\ ras_warned <=>
              \E l \in 0..(LastFrame[1] * LastFrame[2] - 1) :
                  Len(CrossingsFrom(l, 1)) % 2 = 1
        /\ \A v \in Voxels(LastFrame) :
              ras_mask[v] <=>
                 InsidePair(np_sort(CrossingsFrom(v[1] * LastFrame[2] + v[2], 1)),
                            v[3])

\* a ray with three crossings has got the voxels of its first pair, and the
\* warning is set
C9_Witness ==
    /\ ras_pc \in {"y", "z", "vote"} /\ ras_warned
    /\ \E l \in 0..(LastFrame[1] * LastFrame[2] - 1) :
          /\ Len(CrossingsFrom(l, 1)) = 3
          /\ \E v \in Voxels(LastFrame) :
                v[1] * LastFrame[2] + v[2] = l /\ ras_mask[v]

(***************************************************************************)
(* Properties of cat_vol_pbt_AT (specification SpecPbt).                   *)
(***************************************************************************)
IntegerCount ==
    Cardinality({k \in DOMAIN Ymf : Ymf[k] # NaN /\ Ymf[k] % Unit = 0})

BinaryPasses == <<"eidist_wm", "eidist_csf", "pbtp">>

AllPasses ==
    <<"eidist_wm", "wm_limit", "wm_localstat_gm", "wm_localstat_csf",
      "wm_median3", "eidist_csf", "csf_limit", "csf_localstat_gm",
      "csf_localstat_wm", "csf_median3", "pbtp">>

\* C10, as amended: the mode is binary, and the correction passes are
\* skipped, exactly if more than 90% of the voxels are integer-valued; at
\* 90% itself the mode is non-binary.
C10_BinaryAbove90 ==
    pbt_pc = "done" =>
        /\ binary <=> 10 * IntegerCount > 9 * ArrLen(Ymf)
        /\ passes = IF binary THEN BinaryPasses ELSE AllPasses

\* C10, as stated: the mode is binary whenever at least 90% of the voxels
\* are integer-valued.
C10_BinaryFrom90 ==
    pbt_pc = "done" =>
        /\ binary <=> 10 * IntegerCount >= 9 * ArrLen(Ymf)
        /\ passes = IF binary THEN BinaryPasses ELSE AllPasses

\* a volume with 9 of 10 voxels integer-valued has run in non-binary mode
C10_Witness ==
    /\ pbt_pc = "done"
    /\ 10 * IntegerCount = 9 * ArrLen(Ymf)
    /\ ~binary /\ passes = AllPasses

(***************************************************************************)
(* Properties of verts2faces and smooth_vertices (specification            *)
(* SpecSmooth).                                                            *)
(***************************************************************************)
SmVerts == DOMAIN sm_vertices

\* the number of entries of the face t that are the vertex n
Occurrences(t, n) == Cardinality({k \in 1..3 : sm_faces[t][k] = n})

\* C11: v2f[n] lists, in increasing face order, the faces that contain n
\* and no others (a face once for each of its entries that is n, so once in
\* a face of three distinct vertices); without faces every list is empty.
C11_Verts2faces ==
    (sm_pc \in {"mapped", "done"}) =>
        /\ DOMAIN sm_v2f = SmVerts
        /\ \A n \in SmVerts :
              /\ \A k \in 1..(Len(sm_v2f[n]) - 1) :
                    sm_v2f[n][k] <= sm_v2f[n][k + 1]
              /\ \A k \in 1..Len(sm_v2f[n]) : sm_v2f[n][k] \in DOMAIN sm_faces
              /\ \A t \in DOMAIN sm_faces :
                    Cardinality({k \in 1..Len(sm_v2f[n]) : sm_v2f[n][k] = t})
                        = Occurrences(t, n)
        /\ (sm_faces = NoFaces) => \A n \in SmVerts : sm_v2f[n] = <<>>

\* the map of the strip: the vertex 2 is in all three faces, the vertex 4 in
\* the last one
C11_Witness ==
    /\ sm_pc = "mapped" /\ sm_faces = StripFaces
    /\ sm_v2f[2] = <<0, 1, 2>> /\ sm_v2f[4] = <<2>>

\* the vertices that the passes of the last call have smoothed
Smoothed ==
    LET last == sm_rounds[Len(sm_rounds)]
    IN  {last[k] : k \in DOMAIN last}
            \ (IF sm_mask_move = None THEN {}
               ELSE {n \in SmVerts : ~sm_mask_move[1][n]})

Returned == sm_pc = "done" /\ ~sm_out.raised

Uniform == \A n, m \in SmVerts : sm_vertices[n] = sm_vertices[m]

\* C12, as amended: a call on a uniform field that returns gives every
\* vertex its value back, except the smoothed vertices that are in no face:
\* these get NaN, the mean of an empty selection.
C12_UniformKept ==
    (Returned /\ Uniform) =>
        \A n \in SmVerts :
            sm_out.value[n] = IF n \in Smoothed /\ sm_v2f[n] = <<>>
                              THEN <<NaN>> ELSE sm_vertices[n]

\* C12, as stated: every call on a uniform field returns the field.
C12_UniformAlwaysKept ==
    (sm_pc = "done" /\ Uniform) =>
        /\ ~sm_out.raised
        /\ sm_out.value = sm_vertices

\* a uniform non-zero field has come back from two passes or more over a
\* dilated subset of vertices that all have faces
C12_Witness ==
    /\ Returned /\ Uniform /\ sm_vertices[0] = <<RInt(6)>>
    /\ sm_Niterations >= 2 /\ sm_Ndilate >= 1
    /\ Smoothed # {} /\ \A n \in Smoothed : sm_v2f[n] # <<>>
    /\ sm_out.value = sm_vertices

(***************************************************************************)
(* Further properties of expandCS (specification Spec).                    *)
(***************************************************************************)
\* the iteration k has run to its end
Completed(k) == k < i \/ (k = i /\ pc \in {"loop", "done"})

InLog(log, k) == \E j \in DOMAIN log : log[j] = k

\* C13: the full-mesh smoothing has run at the end of exactly those
\* completed iterations k for which smooth_mesh is on and not both
\* skip_lastsmooth is on and k = nsteps-1; it runs once per iteration at most.
C13_SmoothingSchedule ==
    Running =>
        /\ \A k \in 0..(nsteps - 1) :
              InLog(smooth_log, k) <=>
                 /\ Completed(k)
                 /\ opts.smooth_mesh
                 /\ ~(opts.skip_lastsmooth /\ k = nsteps - 1)
        /\ \A j \in 1..(Len(smooth_log) - 1) : smooth_log[j] < smooth_log[j + 1]

\* a run of two iterations with both options on has smoothed after the
\* first iteration only
C13_Witness ==
    /\ pc = "done" /\ nsteps = 2
    /\ opts.smooth_mesh /\ opts.skip_lastsmooth
    /\ smooth_log = <<0>>

\* np.sum((verts - vertices_org) * node_normals, axis=1) for the vertex n
Moved(verts, n) == Dot(VSub(verts[n], vertices_in[n]), node_normals[n])

SegmentOf(n) == Cardinality({k \in Verts : k < n /\ move_backup[k]})

\* C15: after the ray-test update a vertex that was movable at the start of
\* the iteration is movable exactly if test (a) found no intersection of its
\* segment and test (b) fewer than two; a vertex that was non-movable stays
\* non-movable.
C15_RayTestUpdate ==
    pc = "despike" =>
        \A n \in Verts :
            IF move_backup[n]
            THEN move[n] <=> /\ n_intersections[SegmentOf(n)] = 0
                             /\ n_intersections2[SegmentOf(n)] < 2
            ELSE ~move[n]

\* a second iteration's update: one vertex was non-movable before, one is
\* cleared by test (a), one by test (b), and one stays movable
C15_Witness ==
    /\ pc = "despike" /\ i = 1
    /\ \E n \in Verts : ~move_backup[n] /\ ~move[n]
    /\ \E n \in Verts : /\ move_backup[n] /\ ~move[n]
                        /\ n_intersections[SegmentOf(n)] > 0
    /\ \E n \in Verts : /\ move_backup[n] /\ ~move[n]
                        /\ n_intersections[SegmentOf(n)] = 0
                        /\ n_intersections2[SegmentOf(n)] >= 2
    /\ \E n \in Verts : move_backup[n] /\ move[n]

\* the faces that contain the vertex n
IncidentFaces(n) == {t \in DOMAIN faces : \E k \in 1..3 : faces[t][k] = n}

\* the occurrences of vertices non-movable before the despiking in the faces
\* incident to n (n itself included, once for each of these faces)
NonMovableOccurrences(n) ==
    Cardinality({tk \in IncidentFaces(n) \X (1..3) :
                    ~move_rayed[faces[tk[1]][tk[2]]]})

\* another vertex that is non-movable before the despiking is in a face of n
OtherNonMovable(n) ==
    \E t \in IncidentFaces(n) : \E k \in 1..3 :
        faces[t][k] # n /\ ~move_rayed[faces[t][k]]

\* C16: with despike_nonmove, a vertex is non-movable after the despiking
\* exactly if it was non-movable before and the non-movable occurrences in
\* its incident faces outnumber these faces, which is to say that another
\* non-movable vertex is in one of them; at an equal count the vertex is
\* movable again.
C16_DespikeRule ==
    (pc = "move" /\ opts.despike_nonmove) =>
        \A n \in Verts :
            /\ ~move[n] <=>
                  /\ ~move_rayed[n]
                  /\ NonMovableOccurrences(n) > Cardinality(IncidentFaces(n))
            /\ ~move_rayed[n] =>
                  /\ (~move[n] <=> OtherNonMovable(n))
                  /\ NonMovableOccurrences(n) = Cardinality(IncidentFaces(n))
                        => move[n]

\* the despiking has made a vertex movable again whose faces hold no other
\* non-movable vertex: the count equals the number of its faces
C16_Witness ==
    /\ pc = "move" /\ opts.despike_nonmove
    /\ \E n \in Verts :
          /\ ~move_rayed[n] /\ move[n]
          /\ Cardinality(IncidentFaces(n)) > 0
          /\ NonMovableOccurrences(n) = Cardinality(IncidentFaces(n))

\* C17: the displacement that the step vertices += node_normals * mm2move
\* applies is zero at every vertex that is non-movable after the ray tests
\* and the despiking, with and without smooth_mm2move, and the step leaves
\* such a vertex where it is.
C17_NoDisplacementIfFixed ==
    [][pc = "move" =>
          \A n \in Verts :
              ~move[n] => /\ mm2move'[n] = RZero
                          /\ heap'[vertices][n] = heap[vertices][n]]_vars

\* the smoothed displacement has been applied: a non-movable vertex has
\* displacement zero although the vertices of its faces are displaced
C17_Witness ==
    /\ pc = "flipfix" /\ opts.smooth_mm2move
    /\ \E n \in Verts :
          /\ ~move[n] /\ mm2move[n] = RZero
          /\ \E t \in IncidentFaces(n) : \E k \in 1..3 :
                 move[faces[t][k]] /\ mm2move[faces[t][k]] # RZero

\* the distance that vertex n has moved from its original position along
\* the normal of the current iteration, at the start of the iteration
DistMoved(n) == Dot(VSub(iter_start[n], heap.org[n]), node_normals[n])

\* C18: the displacement computed at the start of iteration i is, for a
\* vertex movable at that time, mm2move_total/nsteps if i = 0 and
\* (mm2move_total - dist)/(nsteps - i) if i > 0, with dist the distance
\* already moved along the current normal; it is zero for a non-movable
\* vertex; in the last iteration it is the whole remaining distance.
C18_StepDisplacement ==
    pc = "raytest" =>
        \A n \in Verts :
            /\ mm2move[n] =
                  IF ~move[n] THEN RZero
                  ELSE IF i = 0 THEN RDiv(mm2move_total[n], RInt(nsteps))
                  ELSE RDiv(RSub(mm2move_total[n], DistMoved(n)),
                            RInt(nsteps - i))
            /\ (i = nsteps - 1 /\ i > 0 /\ move[n])
                  => mm2move[n] = RSub(mm2move_total[n], DistMoved(n))

\* the last of several iterations has begun: a movable vertex has moved
\* before and gets the rest of its distance, a non-movable one gets zero
\* although a rest is left
C18_Witness ==
    /\ pc = "raytest" /\ i > 0 /\ i = nsteps - 1
    /\ \E n \in Verts :
          /\ move[n] /\ DistMoved(n) # RZero /\ mm2move[n] # RZero
          /\ mm2move[n] = RSub(mm2move_total[n], DistMoved(n))
    /\ \E m \in Verts :
          /\ ~move[m] /\ mm2move[m] = RZero
          /\ RSub(mm2move_total[m], DistMoved(m)) # RZero

(***************************************************************************)
(* Further properties of smooth_vertices (specification SpecSmooth).       *)
(***************************************************************************)
Elems(s) == {s[k] : k \in DOMAIN s}

\* the vertex n belongs to the face t
InFace(n, t) == \E k \in 1..3 : sm_faces[t][k] = n

InSomeFace(n) == \E t \in DOMAIN sm_faces : InFace(n, t)

\* all vertices of the faces incident to a vertex of S
Ring(S) ==
    {sm_faces[t][k] : t \in {u \in DOMAIN sm_faces : \E n \in S : InFace(n, u)},
                      k \in 1..3}

\* C19, as amended: a dilation round on a non-empty subset replaces it by
\* the set, in increasing order, of all vertices of the faces incident to a
\* vertex of the subset; the new subset contains every vertex of the old one
\* that belongs to a face and none that belongs to no face; a round on an
\* empty subset raises, and otherwise all Ndilate rounds run.
C19_DilationRound ==
    sm_pc = "done" =>
        /\ \A r \in 1..(Len(sm_rounds) - 1) :
              /\ sm_rounds[r] # <<>>
              /\ sm_rounds[r + 1] = SortedSeq(Ring(Elems(sm_rounds[r])))
              /\ \A n \in Elems(sm_rounds[r]) :
                    n \in Elems(sm_rounds[r + 1]) <=> InSomeFace(n)
        /\ sm_out.raised <=>
              /\ Len(sm_rounds) <= sm_Ndilate
              /\ sm_rounds[Len(sm_rounds)] = <<>>
        /\ ~sm_out.raised => Len(sm_rounds) = sm_Ndilate + 1

\* C19, as stated: every round runs and gives the vertices of the incident
\* faces, and the new subset contains the old one, for every mesh and every
\* starting subset.
C19_SubsetAlwaysGrown ==
    sm_pc = "done" =>
        /\ ~sm_out.raised
        /\ Len(sm_rounds) = sm_Ndilate + 1
        /\ \A r \in 1..(Len(sm_rounds) - 1) :
              /\ sm_rounds[r + 1] = SortedSeq(Ring(Elems(sm_rounds[r])))
              /\ Elems(sm_rounds[r]) \subseteq Elems(sm_rounds[r + 1])

\* two rounds have run: the first has added vertices and has dropped a
\* vertex that is in no face, the second has added vertices again
C19_Witness ==
    /\ sm_pc = "done" /\ ~sm_out.raised
    /\ sm_Ndilate = 2 /\ Len(sm_rounds) = 3
    /\ \E n \in Elems(sm_rounds[1]) : n \notin Elems(sm_rounds[2])
    /\ \E n \in Elems(sm_rounds[2]) : n \notin Elems(sm_rounds[1])
    /\ \E n \in Elems(sm_rounds[3]) : n \notin Elems(sm_rounds[2])

\* the entries (face, position) of the faces that contain the vertex n
EntriesAt(n) == {t \in DOMAIN sm_faces : InFace(n, t)} \X (1..3)

RECURSIVE EntrySum(_, _)
EntrySum(prev, E) ==
    IF E = {} THEN 0
    ELSE LET e == CHOOSE x \in E : TRUE
         IN  prev[sm_faces[e[1]][e[2]]][1] + EntrySum(prev, E \ {e})

\* the unweighted average of the field prev over all vertex entries of the
\* faces of n; NaN if there is no entry or if one of them is NaN
EntryMean(prev, n) ==
    IF EntriesAt(n) = {} THEN NaN
    ELSE IF \E e \in EntriesAt(n) : prev[sm_faces[e[1]][e[2]]][1] = NaN
         THEN NaN
         ELSE RoundDiv(EntrySum(prev, EntriesAt(n)), Cardinality(EntriesAt(n)))

\* one pass in which every smoothed vertex reads the field prev only
JacobiPass(prev) ==
    [n \in SmVerts |-> IF n \in Smoothed THEN <<EntryMean(prev, n)>>
                       ELSE prev[n]]

\* k passes, each on the result of the one before, the first on the input
RECURSIVE JacobiPasses(_)
JacobiPasses(k) ==
    IF k = 0 THEN sm_vertices
    ELSE CHOOSE r \in { JacobiPass(p) : p \in {JacobiPasses(k - 1)} } : TRUE

\* the passes that a call makes: one, and Niterations-1 more
PassCount == IF sm_Niterations < 1 THEN 1 ELSE sm_Niterations

\* C20: in plain mode the result is that of Jacobi passes: in each pass
\* every subset vertex gets the unweighted average over all vertex entries
\* of its incident faces of the previous pass's result (of the input in the
\* first pass), so the result depends on the set of subset vertices only,
\* not on their order, and pass k+1 reads the output of pass k.
C20_JacobiPasses ==
    Returned => sm_out.value = JacobiPasses(PassCount)

\* two passes or more over two neighbouring vertices, given in decreasing
\* order, of a field that is not uniform: both have changed, and the last
\* pass has changed the result of the first
C20_Witness ==
    /\ Returned /\ sm_verts2consider = Some(<<2, 1>>)
    /\ sm_Ndilate = 0 /\ sm_mask_move = None /\ sm_Niterations >= 2
    /\ sm_faces = StripFaces
    /\ sm_out.value[1] # sm_vertices[1] /\ sm_out.value[2] # sm_vertices[2]
    /\ sm_out.value # JacobiPasses(1)
    /\ \A n \in SmVerts \ {1, 2} : sm_out.value[n] = sm_vertices[n]

(***************************************************************************)
(* Properties of the mask of expandCS over several meshes (specification   *)
(* SpecMask).                                                              *)
(***************************************************************************)
MkVerts == DOMAIN mk_move

\* the vertices n and m are in one face
ShareFace(n, m) ==
    \E t \in DOMAIN mk_faces :
        /\ \E k \in 1..3 : mk_faces[t][k] = n
        /\ \E k \in 1..3 : mk_faces[t][k] = m

\* a face names the vertex n more than once
NamedTwice(n) ==
    \E t \in DOMAIN mk_faces :
        Cardinality({k \in 1..3 : mk_faces[t][k] = n}) > 1

\* an iteration with despiking has ended
Despiked == mk_despike_nonmove /\ mk_pc \in {"loop", "done"} /\ mk_i >= 0

C22_CurrentStaysInRange ==
    InRange(initial) => InRange(_current)

\* C23, as stated: for a deformation constructed with initial inside its
\* range, every reset succeeds and leaves current equal to initial.
C23_ResetRestoresInitial ==
    (InRange(initial) /\ last_call.op = "reset") =>
        ~last_call.raised /\ _current = initial

(***************************************************************************)
(* Properties of to_tcd and from_tcd (specification SpecTcd).              *)
(***************************************************************************)
\* the deformation can be written: a rotation, or a translation along one of
\* the axes 0, 1, 2
Writable(d) == d.cls = "TmsCoilRotation" \/ d.axis \in 0..2

\* C24: from_tcd(d.to_tcd()) is a deformation of the class of d with the
\* initial value, the range bounds and the axis (or the two points) of d,
\* and its current value is the initial one whatever d.current was; to_tcd
\* of a translation with an axis outside 0..2 raises ValueError, and so does
\* from_tcd of a dictionary of an unknown type.
C24_RoundTrip ==
    /\ (td_pc = "done" /\ Writable(td_obj)) =>
          /\ td_tcd.raised = "none" /\ td_back.raised = "none"
          /\ td_back.value.cls = td_obj.cls
          /\ td_back.value.initial = td_obj.initial
          /\ td_back.value.range.items = td_obj.range.items
          /\ td_back.value.current = td_obj.initial
          /\ IF td_obj.cls = "TmsCoilTranslation"
             THEN td_back.value.axis = td_obj.axis
             ELSE /\ td_back.value.point_1.items = td_obj.point_1.items
                  /\ td_back.value.point_2.items = td_obj.point_2.items
    /\ (td_pc = "done" /\ ~Writable(td_obj)) =>
          td_tcd.raised = "ValueError"
    /\ td_pc = "done_foreign" => td_back.raised = "ValueError"

\* a translation along the axis 2 whose current value differs from the
\* initial one has been written and read back
C24_Witness ==
    /\ td_pc = "done" /\ td_obj.cls = "TmsCoilTranslation" /\ td_obj.axis = 2
    /\ td_obj.current # td_obj.initial
    /\ td_tcd.raised = "none" /\ td_tcd.value.type = "z"
    /\ td_back.raised = "none" /\ td_back.value.axis = 2
    /\ td_back.value.current = td_obj.initial

(***************************************************************************)
(* The frame of smooth_vertices (specification SpecSmooth).                *)
(***************************************************************************)
\* C25: a plain call with Niterations >= 1 that returns changes only the
\* subset left by the dilation and the restriction to mask_move: every
\* other vertex has its input value in the returned array, and the input
\* array is as it was before the call.
C25_OnlySubsetChanged ==
    [][(sm_pc = "mapped" /\ sm_Niterations >= 1 /\ ~sm_out'.raised) =>
          /\ sm_vertices' = sm_vertices
          /\ \A n \in SmVerts \ Smoothed' :
                 sm_out'.value[n] = sm_vertices[n]]_vars

\* two passes or more over a dilated and masked subset have changed a vertex
\* of the subset; a vertex outside it, whose faces average to another value,
\* is returned as it was, and the input differs from the returned array
C25_Witness ==
    /\ Returned /\ sm_Niterations >= 2 /\ sm_Ndilate >= 1
    /\ sm_mask_move # None /\ sm_verts2consider # None
    /\ \E n \in Smoothed : sm_out.value[n] # sm_vertices[n]
    /\ \E n \in SmVerts \ Smoothed :
          /\ sm_v2f[n] # <<>>
          /\ EntryMean(sm_vertices, n) # sm_vertices[n][1]
          /\ sm_out.value[n] = sm_vertices[n]

====
